---- MODULE Spec2Model ----
(***************************************************************************)
(* Model of imp (src/main.c): the cursor, the lexer, the procedure table,  *)
(* the recursive-descent parser and the code generator of a toy language   *)
(* whose only constructs are procedures and calls between them.            *)
(*                                                                         *)
(* A character is a string of length one; a text (the buffer content, a    *)
(* lexeme, a procedure name) is a sequence of characters.  The terminator  *)
(* of the C string is the value NUL, which is not a member of any text.    *)
(***************************************************************************)
EXTENDS Integers, Sequences, FiniteSets, TLC

VARIABLES
    content,        \* c->buffer.content without its terminator (buffer.size = Len(content))
    cursor,         \* c->cursor: [row, col, point, line]
    current_token,  \* c->current_token
    procedures,     \* c->procedures: the table, a sequence of [name, calls]; an entry is
                    \* identified by its index (the table never removes or moves a pointer)
    output_file,    \* c->output_file: "NULL" or "open"
    asm,            \* the lines written to output.asm (<<>>: the file was never created)
    history,        \* c->history: the tokens lexed so far
    pc,             \* the position of the driver in parse / parse_procedure / main
    proc,           \* parse_procedure's local `proc` (index into the table, 0 before any)
    err,            \* what error() reported, and whether the process has exited
    prog,           \* input: the program the source text was written from
    layout,         \* input: how the tokens of the text are separated
    damage          \* input: the edit that was made to the text of prog (or NoDamage)

vars == <<content, cursor, current_token, procedures, output_file, asm, history,
          pc, proc, err, prog, layout, damage>>

-----------------------------------------------------------------------------
(* Bounds of the model *)

\* longest source of the lexer runs, in pieces
MaxPieces == 3
\* lex calls made after the whole text has been consumed
\* identifier runs are tried this many characters around the lexeme buffer's size
LongMargin == 2

MaxExtraCalls == 2
\* size of a program: its declarations plus its calls
MaxItems == 4
\* size of the programs whose text is damaged
MaxDamaged == 2

-----------------------------------------------------------------------------
(* Characters: <ctype.h> on the characters the model uses *)

NUL == "NUL"
\* what a read outside the allocation yields (never NUL-checked by the code)
OOB == "OOB"

Lower == {"a","b","c","d","e","f","g","h","i","j","k","l","m",
          "n","o","p","q","r","s","t","u","v","w","x","y","z"}
Upper == {"A","B","C","D","E","F","G","H","I","J","K","L","M",
          "N","O","P","Q","R","S","T","U","V","W","X","Y","Z"}
Digit == {"0","1","2","3","4","5","6","7","8","9"}

isspace(ch) == ch \in {" ", "\t", "\n", "\r"}
isalpha(ch) == ch \in Lower \cup Upper
isalnum(ch) == isalpha(ch) \/ ch \in Digit

KeywordProc == <<"p","r","o","c">>

-----------------------------------------------------------------------------
(* Token kinds (enum TokenType) *)

TOKEN_IDENTIFIER   == "TOKEN_IDENTIFIER"
TOKEN_DOUBLE_COLON == "TOKEN_DOUBLE_COLON"
TOKEN_PROC         == "TOKEN_PROC"
TOKEN_LPAREN       == "TOKEN_LPAREN"
TOKEN_RPAREN       == "TOKEN_RPAREN"
TOKEN_LBRACE       == "TOKEN_LBRACE"
TOKEN_RBRACE       == "TOKEN_RBRACE"
TOKEN_EOF          == "TOKEN_EOF"

\* c->current_token before the first lex call: compiler_new leaves it unset
NoToken == [type |-> "unset", lexeme |-> <<>>, row |-> 0, col |-> 0, line |-> 0,
            start |-> 0, end |-> 0]

-----------------------------------------------------------------------------
(* Cursor *)

cursor_new == [row |-> 1, col |-> 1, point |-> 0, line |-> 0]

cursor_peek(cur) ==
    IF cur.point < Len(content) THEN content[cur.point + 1]
    ELSE IF cur.point = Len(content) THEN NUL
    ELSE OOB

\* cursor_advance, had the newline branch left the column alone
cursor_advance_NoColReset(cur) ==
    IF cursor_peek(cur) = "\n"
    THEN [row |-> cur.row + 1, col |-> cur.col, point |-> cur.point + 1, line |-> cur.line + 1]
    ELSE [cur EXCEPT !.col = cur.col + 1, !.point = cur.point + 1]

cursor_advance(cur) ==
    IF cursor_peek(cur) = "\n"
    THEN [row |-> cur.row + 1, col |-> 1, point |-> cur.point + 1, line |-> cur.line + 1]
    ELSE [cur EXCEPT !.col = cur.col + 1, !.point = cur.point + 1]

cursor_is_at_end(cur) == cursor_peek(cur) = NUL

-----------------------------------------------------------------------------
(* Tokens *)

token_new(type, lexeme, row, col, line, start, end) ==
    [type |-> type, lexeme |-> lexeme, row |-> row, col |-> col, line |-> line,
     start |-> start, end |-> end]

\* token_history_add, had it stored the token over the newest entry
token_history_add_Overwrite(h, token) ==
    IF h = <<>> THEN <<token>> ELSE [h EXCEPT ![Len(h)] = token]

token_history_add(h, token) == Append(h, token)

-----------------------------------------------------------------------------
(* Lexer.  lex(cur) is what one call of lex does from cursor cur: the cursor *)
(* it leaves, the token it makes (NoToken when it ends in error) and the     *)
(* message it hands to error ("" when it returns).                           *)

\* char lexeme[256]
LexemeBufSize == 256

Lexed(cur, token) == [cursor |-> cur, token |-> token, message |-> "", overflow |-> FALSE]
LexError(cur, message) ==
    [cursor |-> cur, token |-> NoToken, message |-> message, overflow |-> FALSE]

RECURSIVE SkipWhitespace(_)
SkipWhitespace(cur) ==
    IF isspace(cursor_peek(cur)) THEN SkipWhitespace(cursor_advance(cur)) ELSE cur

\* while (isalnum(peek) || peek == '_') { lexeme[lexeme_len++] = peek; advance; }
\* run for at most k rounds: the cursor it ends on.  The rounds are taken in
\* two halves, the loop test between them.
RECURSIVE IdentifierLoop(_, _)
IdentifierLoop(cur, k) ==
    IF k = 0 THEN cur
    ELSE IF k = 1
    THEN IF isalnum(cursor_peek(cur)) \/ cursor_peek(cur) = "_"
         THEN cursor_advance(cur) ELSE cur
    ELSE LET mid == IdentifierLoop(cur, k \div 2)
         IN  IF isalnum(cursor_peek(mid)) \/ cursor_peek(mid) = "_"
             THEN IdentifierLoop(mid, k - k \div 2) ELSE mid

\* the identifier loop on a text, which ends at the terminator at the latest;
\* the lexeme holds the characters the cursor passed
IdentifierRun(cur, lexeme) ==
    LET end == IdentifierLoop(cur, Len(content) - cur.point + 1)
    IN  [cursor |-> end,
         lexeme |-> lexeme \o SubSeq(content, cur.point + 1, end.point)]

\* the end-of-file branch, had it consumed the terminator
LexEndOfFile_Consuming(cur) ==
    Lexed(cursor_advance(cur),
          token_new(TOKEN_EOF, <<>>, cur.row, cur.col, cur.line, cur.point, cur.point))

LexEndOfFile(cur) ==
    Lexed(cur, token_new(TOKEN_EOF, <<>>, cur.row, cur.col, cur.line, cur.point, cur.point))

\* the keyword test, had it compared only the first four characters
LexIdentifier_PrefixKeyword(cur) ==
    LET run == IdentifierRun(cur, <<>>)
        type == IF Len(run.lexeme) >= 4 /\ SubSeq(run.lexeme, 1, 4) = KeywordProc
                THEN TOKEN_PROC ELSE TOKEN_IDENTIFIER
    IN  [Lexed(run.cursor,
               token_new(type, run.lexeme, cur.row, cur.col, cur.line,
                         cur.point, run.cursor.point))
         EXCEPT !.overflow = Len(run.lexeme) >= LexemeBufSize]

LexIdentifier(cur) ==
    LET run == IdentifierRun(cur, <<>>)
        type == IF run.lexeme = KeywordProc THEN TOKEN_PROC ELSE TOKEN_IDENTIFIER
    IN  [Lexed(run.cursor,
               token_new(type, run.lexeme, cur.row, cur.col, cur.line,
                         cur.point, run.cursor.point))
         EXCEPT !.overflow = Len(run.lexeme) >= LexemeBufSize]

\* the ':' branch, had it consumed the next character before looking at it
LexColon_SkipsNext(cur) ==
    LET c1 == cursor_advance(cur)
        c2 == cursor_advance(c1)
    IN  IF cursor_peek(c1) = ":"
        THEN Lexed(c2, token_new(TOKEN_DOUBLE_COLON, <<":", ":">>, cur.row, cur.col,
                                 cur.line, cur.point, c2.point))
        ELSE LexError(c2, "Expected ':' after ':'")

\* the ':' branch, had a single ':' been let through as a token
LexColon_Lenient(cur) ==
    LET c1 == cursor_advance(cur)
    IN  IF cursor_peek(c1) = ":"
        THEN LET c2 == cursor_advance(c1)
             IN  Lexed(c2, token_new(TOKEN_DOUBLE_COLON, <<":", ":">>, cur.row, cur.col,
                                     cur.line, cur.point, c2.point))
        ELSE Lexed(c1, token_new(TOKEN_DOUBLE_COLON, <<":">>, cur.row, cur.col,
                                 cur.line, cur.point, c1.point))

LexColon(cur) ==
    LET c1 == cursor_advance(cur)
    IN  IF cursor_peek(c1) = ":"
        THEN LET c2 == cursor_advance(c1)
             IN  Lexed(c2, token_new(TOKEN_DOUBLE_COLON, <<":", ":">>, cur.row, cur.col,
                                     cur.line, cur.point, c2.point))
        ELSE LexError(c1, "Expected ':' after ':'")

PunctuationType(ch) ==
    CASE ch = "(" -> TOKEN_LPAREN
      [] ch = ")" -> TOKEN_RPAREN
      [] ch = "{" -> TOKEN_LBRACE
      [] ch = "}" -> TOKEN_RBRACE

\* the punctuation branches, had they forgotten cursor_advance
LexPunctuation_NoAdvance(cur) ==
    LET ch == cursor_peek(cur)
    IN  Lexed(cur, token_new(PunctuationType(ch), <<ch>>, cur.row, cur.col, cur.line,
                             cur.point, cur.point))

\* the punctuation branches, had they read the position after cursor_advance
LexPunctuation_CursorPosition(cur) ==
    LET ch == cursor_peek(cur)
        c1 == cursor_advance(cur)
    IN  Lexed(c1, token_new(PunctuationType(ch), <<ch>>, c1.row, c1.col, c1.line,
                            cur.point, c1.point))

LexPunctuation(cur) ==
    LET ch == cursor_peek(cur)
        c1 == cursor_advance(cur)
    IN  Lexed(c1, token_new(PunctuationType(ch), <<ch>>, cur.row, cur.col, cur.line,
                            cur.point, c1.point))

lex(cur) ==
    LET c0 == SkipWhitespace(cur)
        ch == cursor_peek(c0)
    IN  IF cursor_is_at_end(c0) THEN LexEndOfFile(c0)
        ELSE IF isalpha(ch) \/ ch = "_" THEN LexIdentifier(c0)
        ELSE IF ch = ":" THEN LexColon(c0)
        ELSE IF ch \in {"(", ")", "{", "}"} THEN LexPunctuation(c0)
        ELSE LexError(c0, "Unexpected character")

-----------------------------------------------------------------------------
(* error(): the report on stderr, then exit(1) *)

NoError == [exited |-> FALSE, row |-> 0, col |-> 0, message |-> ""]

\* error(), had it returned to its caller after the report
error_Returns(cur, message) ==
    [exited |-> FALSE, row |-> cur.row, col |-> cur.col, message |-> message]

error(cur, message) == [exited |-> TRUE, row |-> cur.row, col |-> cur.col, message |-> message]

Raised == err.message # ""
Running == ~err.exited /\ pc # "undefined"

\* One call of lex(c) by the driver, which then goes on at `next`.  e0 is the
\* error state before the call.  When lex ends in error() the process exits
\* and neither the current token nor the history is touched.
\* What a write at or beyond lexeme[256] can do: the bytes behind the buffer
\* take it and lex goes on as written ("unnoticed"), or the process is no
\* longer the program (stack check abort, clobbered locals: "lost").
OverflowOutcomes == {"unnoticed", "lost"}

CallLex(e0, next) ==
    LET r == lex(cursor)
        e1 == IF r.message # "" THEN error(r.cursor, r.message) ELSE e0
    IN  \E outcome \in IF r.overflow THEN OverflowOutcomes ELSE {"defined"} :
            /\ cursor' = r.cursor
            /\ err' = e1
            /\ IF outcome = "lost"
               THEN /\ pc' = "undefined"
                    /\ UNCHANGED <<current_token, history>>
               ELSE IF e1.exited
               THEN UNCHANGED <<current_token, history, pc>>
               ELSE /\ current_token' = IF r.message = "" THEN r.token ELSE current_token
                    /\ history' = token_history_add(history, current_token')
                    /\ pc' = next

-----------------------------------------------------------------------------
(* Source texts *)

RECURSIVE Flatten(_)
Flatten(texts) == IF texts = <<>> THEN <<>> ELSE Head(texts) \o Flatten(Tail(texts))

NoDamage == [at |-> 0, piece |-> <<>>, cut |-> FALSE]

\* The pieces the texts of the lexer runs are put together from
LexPieces ==
    { KeywordProc, <<"P","r","o","c">>, <<"x">>, <<"_">>, <<"1">>, <<":", ":">>, <<":">>,
      <<"(">>, <<")">>, <<"{">>, <<"}">>, <<" ">>, <<"\n">>, <<"$">> }

LexSources ==
    { Flatten(ps) : ps \in UNION { [1..n -> LexPieces] : n \in 0..MaxPieces } }

\* compiler_new(source), before any input is fixed
CompilerNew ==
    /\ cursor = cursor_new
    /\ current_token = NoToken
    /\ procedures = <<>>
    /\ output_file = "NULL"
    /\ asm = <<>>
    /\ history = <<>>
    /\ proc = 0
    /\ err = NoError

-----------------------------------------------------------------------------
(* The lexer on its own: lex is called again and again on one compiler *)

InitLex ==
    /\ content \in LexSources
    /\ CompilerNew
    /\ pc = "lex"
    /\ prog = <<>>
    /\ layout = "none"
    /\ damage = NoDamage

\* n times the character ch
Repeat(ch, n) == [i \in 1..n |-> ch]

\* Texts with one identifier run about as long as the lexeme buffer
LongPrefixes == { <<>>, <<" ">>, <<"(">>, <<"\n", " ">> }
LongSuffixes == { <<>>, <<"(">>, <<" ", "y">>, <<":">> }

LongRuns ==
    { <<first>> \o Repeat(fill, n - 1) :
        first \in {"x", "_"}, fill \in {"a", "1", "_"},
        n \in (LexemeBufSize - LongMargin)..(LexemeBufSize + LongMargin) }

LongSources ==
    { before \o run \o after :
        before \in LongPrefixes, run \in LongRuns, after \in LongSuffixes }

InitLong ==
    /\ content \in LongSources
    /\ CompilerNew
    /\ pc = "lex"
    /\ prog = <<>>
    /\ layout = "none"
    /\ damage = NoDamage

LexCall ==
    /\ pc = "lex"
    /\ Running
    /\ Len(history) < Len(content) + 1 + MaxExtraCalls
    /\ CallLex(err, "lex")
    /\ UNCHANGED <<content, procedures, output_file, asm, proc, prog, layout, damage>>

NextLex == LexCall

SpecLex == InitLex /\ [][NextLex]_vars

\* the lexer called on the texts with a long identifier
SpecLong == InitLong /\ [][NextLex]_vars

-----------------------------------------------------------------------------
(* Procedure table *)

\* the scan, had it started at the second entry
find_procedure_SkipsFirst(procs, name) ==
    IF \E i \in 2..Len(procs) : procs[i].name = name
    THEN CHOOSE i \in 2..Len(procs) :
            /\ procs[i].name = name
            /\ \A j \in 2..(i - 1) : procs[j].name # name
    ELSE 0

\* the index of the first entry named `name`, 0 for NULL
find_procedure(procs, name) ==
    IF \E i \in 1..Len(procs) : procs[i].name = name
    THEN CHOOSE i \in 1..Len(procs) :
            /\ procs[i].name = name
            /\ \A j \in 1..(i - 1) : procs[j].name # name
    ELSE 0

procedure_new(name) == [name |-> name, calls |-> <<>>]

\* the registration, had it put the new entry first
TableAdd_Front(procs, p) == <<p>> \o procs

\* c->procedures.array[c->procedures.num++] = p
TableAdd(procs, p) == Append(procs, p)

\* find-or-create, had it entered a new entry without looking for an old one
FindOrCreate_AlwaysNew(procs, name) ==
    [table |-> TableAdd(procs, procedure_new(name)), entry |-> Len(procs) + 1]

\* find_procedure, and procedure_new with TableAdd when it finds none:
\* the table and the entry found or made
FindOrCreate(procs, name) ==
    LET found == find_procedure(procs, name)
    IN  IF found = 0
        THEN [table |-> TableAdd(procs, procedure_new(name)), entry |-> Len(procs) + 1]
        ELSE [table |-> procs, entry |-> found]

\* the call list, had it skipped a callee it already holds
procedure_add_call_Dedup(procs, p, called_proc) ==
    IF \E k \in 1..Len(procs[p].calls) : procs[p].calls[k] = called_proc
    THEN procs
    ELSE [procs EXCEPT ![p].calls = Append(@, called_proc)]

procedure_add_call(procs, p, called_proc) ==
    [procs EXCEPT ![p].calls = Append(@, called_proc)]

\* the declaration, had it kept the calls of an earlier one
ClearCalls_Keep(procs, p) == procs

\* proc->num_calls = 0
ClearCalls(procs, p) == [procs EXCEPT ![p].calls = <<>>]

-----------------------------------------------------------------------------
(* Parser: parse and parse_procedure, one action for each stretch of code   *)
(* that ends with a call of lex.                                           *)

\* error(c, message) when the current token is not of the expected type
Mismatch(type, message) ==
    IF current_token.type # type THEN error(cursor, message) ELSE err

\* lex(c), called with error state e0, returns to its caller
LexReturns(e0) ==
    LET r == lex(cursor)
    IN  /\ ~r.overflow
        /\ ~(IF r.message # "" THEN error(r.cursor, r.message) ELSE e0).exited

Exit(e) ==
    /\ err' = e
    /\ UNCHANGED <<cursor, current_token, history, pc, procedures, proc>>

\* if (type != expected) error(...); lex(c);
Expect(here, type, message, next) ==
    /\ pc = here
    /\ Running
    /\ LET e0 == Mismatch(type, message)
       IN  IF e0.exited THEN Exit(e0)
           ELSE CallLex(e0, next) /\ UNCHANGED <<procedures, proc>>
    /\ UNCHANGED <<content, output_file, asm, prog, layout, damage>>

\* parse: lex(c) for the first token
ParseBegin ==
    /\ pc = "parse"
    /\ Running
    /\ CallLex(err, "parse_loop")
    /\ UNCHANGED <<content, procedures, output_file, asm, proc, prog, layout, damage>>

\* parse: while (c->current_token.type != TOKEN_EOF) parse_procedure(c);
ParseLoop ==
    /\ pc = "parse_loop"
    /\ Running
    /\ pc' = IF current_token.type # TOKEN_EOF THEN "proc_name" ELSE "generate"
    /\ UNCHANGED <<content, cursor, current_token, procedures, output_file, asm,
                   history, proc, err, prog, layout, damage>>

\* parse_procedure: the declared name, found or entered in the table
ProcName ==
    /\ pc = "proc_name"
    /\ Running
    /\ LET e0 == Mismatch(TOKEN_IDENTIFIER, "Expected procedure name")
           fc == FindOrCreate(procedures, current_token.lexeme)
       IN  IF e0.exited THEN Exit(e0)
           ELSE /\ procedures' = fc.table
                /\ proc' = fc.entry
                /\ CallLex(e0, "proc_dcolon")
    /\ UNCHANGED <<content, output_file, asm, prog, layout, damage>>

ProcDoubleColon == Expect("proc_dcolon", TOKEN_DOUBLE_COLON, "Expected '::'", "proc_keyword")
ProcKeyword     == Expect("proc_keyword", TOKEN_PROC, "Expected 'proc'", "proc_lparen")
ProcLParen      == Expect("proc_lparen", TOKEN_LPAREN, "Expected '('", "proc_rparen")
ProcRParen      == Expect("proc_rparen", TOKEN_RPAREN, "Expected ')'", "proc_lbrace")

\* parse_procedure: '{', after which the call list of proc is cleared
ProcLBrace ==
    /\ pc = "proc_lbrace"
    /\ Running
    /\ LET e0 == Mismatch(TOKEN_LBRACE, "Expected '{'")
       IN  IF e0.exited THEN Exit(e0)
           ELSE /\ CallLex(e0, "body")
                /\ procedures' = IF LexReturns(e0) THEN ClearCalls(procedures, proc)
                                 ELSE procedures
                /\ proc' = proc
    /\ UNCHANGED <<content, output_file, asm, prog, layout, damage>>

\* the body loop, had it also ended at end-of-input
BodyEnds_OrEof(type) == type \in {TOKEN_RBRACE, TOKEN_EOF}

\* while (c->current_token.type != TOKEN_RBRACE): the loop is left
BodyEnds(type) == type = TOKEN_RBRACE

\* the body loop, had a callee made by procedure_new not been entered in the
\* table before it is put on the call list
Body_CalleeNotRegistered ==
    /\ pc = "body"
    /\ Running
    /\ IF BodyEnds(current_token.type)
       THEN CallLex(err, "parse_loop") /\ UNCHANGED <<procedures, proc>>
       ELSE LET e0 == Mismatch(TOKEN_IDENTIFIER, "Expected procedure call")
                fc == FindOrCreate(procedures, current_token.lexeme)
            IN  IF e0.exited THEN Exit(e0)
                ELSE /\ procedures' = procedure_add_call(procedures, proc, fc.entry)
                     /\ proc' = proc
                     /\ CallLex(e0, "call_lparen")
    /\ UNCHANGED <<content, output_file, asm, prog, layout, damage>>

\* parse_procedure: the head of the body loop; a call is recorded, or '}' ends
\* the declaration
Body ==
    /\ pc = "body"
    /\ Running
    /\ IF BodyEnds(current_token.type)
       THEN CallLex(err, "parse_loop") /\ UNCHANGED <<procedures, proc>>
       ELSE LET e0 == Mismatch(TOKEN_IDENTIFIER, "Expected procedure call")
                fc == FindOrCreate(procedures, current_token.lexeme)
            IN  IF e0.exited THEN Exit(e0)
                ELSE /\ procedures' = procedure_add_call(fc.table, proc, fc.entry)
                     /\ proc' = proc
                     /\ CallLex(e0, "call_lparen")
    /\ UNCHANGED <<content, output_file, asm, prog, layout, damage>>

\* the check after a callee name, had it carried the next check's message
CallLParen_CopyPaste == Expect("call_lparen", TOKEN_LPAREN, "Expected ')'", "call_rparen")

CallLParen == Expect("call_lparen", TOKEN_LPAREN, "Expected '('", "call_rparen")
\* the check of a call's ')', had the lex(c) that consumes it been left out
CallRParen_NoLex ==
    /\ pc = "call_rparen"
    /\ Running
    /\ LET e0 == Mismatch(TOKEN_RPAREN, "Expected ')'")
       IN  IF e0.exited THEN Exit(e0)
           ELSE /\ pc' = "body"
                /\ UNCHANGED <<cursor, current_token, history, err, procedures, proc>>
    /\ UNCHANGED <<content, output_file, asm, prog, layout, damage>>

CallRParen == Expect("call_rparen", TOKEN_RPAREN, "Expected ')'", "body")

-----------------------------------------------------------------------------
(* Code generator.  A line of output.asm is <<"text", t>>, <<"label", name>>  *)
(* for "name:", <<"call", name>> for "    call name", or <<"blank">>.         *)

NameMain  == <<"m", "a", "i", "n">>
NameStart == <<"_", "s", "t", "a", "r", "t">>

AsmHeader ==
    << <<"text", "global _start">>, <<"blank">>, <<"text", "section .text">>, <<"blank">> >>

\* the call loop, had it stopped one call early
AsmCalls_DropLast(procs, calls) ==
    [j \in 1..(Len(calls) - 1) |-> <<"call", procs[calls[j]].name>>]

AsmCalls(procs, calls) == [j \in 1..Len(calls) |-> <<"call", procs[calls[j]].name>>]

\* the block, had the two epilogue instructions been written in the other order
AsmProcedure_EpilogueSwapped(procs, i) ==
    << <<"label", procs[i].name>>, <<"text", "    push rbp">>, <<"text", "    mov rbp, rsp">> >>
    \o AsmCalls(procs, procs[i].calls)
    \o << <<"text", "    pop rbp">>, <<"text", "    mov rsp, rbp">>, <<"text", "    ret">>,
          <<"blank">> >>

AsmProcedure(procs, i) ==
    << <<"label", procs[i].name>>, <<"text", "    push rbp">>, <<"text", "    mov rbp, rsp">> >>
    \o AsmCalls(procs, procs[i].calls)
    \o << <<"text", "    mov rsp, rbp">>, <<"text", "    pop rbp">>, <<"text", "    ret">>,
          <<"blank">> >>

\* the procedure loop, had it stopped one entry early
RECURSIVE AsmProceduresFrom_SkipLast(_, _)
AsmProceduresFrom_SkipLast(procs, i) ==
    IF i >= Len(procs) THEN <<>>
    ELSE AsmProcedure(procs, i) \o AsmProceduresFrom_SkipLast(procs, i + 1)

\* for (size_t i = 0; i < c->procedures.num; i++), from entry i on
RECURSIVE AsmProceduresFrom(_, _)
AsmProceduresFrom(procs, i) ==
    IF i > Len(procs) THEN <<>>
    ELSE AsmProcedure(procs, i) \o AsmProceduresFrom(procs, i + 1)

AsmProcedures(procs) == AsmProceduresFrom(procs, 1)

AsmStart ==
    << <<"label", NameStart>>, <<"call", NameMain>>, <<"text", "    mov rax, 60">>,
       <<"text", "    xor rdi, rdi">>, <<"text", "    syscall">> >>

\* generate_code: fopen, which may fail, and the header
GenerateOpen ==
    /\ pc = "generate"
    /\ Running
    /\ \E opened \in BOOLEAN :
          LET e0 == IF ~opened THEN error(cursor, "Could not create output file") ELSE err
          IN  IF e0.exited
              THEN err' = e0 /\ UNCHANGED <<output_file, asm, pc>>
              ELSE /\ err' = e0
                   /\ output_file' = IF opened THEN "open" ELSE "NULL"
                   /\ asm' = IF opened THEN AsmHeader ELSE asm
                   /\ pc' = IF opened THEN "emit" ELSE "undefined"
    /\ UNCHANGED <<content, cursor, current_token, procedures, history, proc,
                   prog, layout, damage>>

\* generate_code, had it used up the call lists while emitting them
GenerateEmit_ConsumesCalls ==
    /\ pc = "emit"
    /\ Running
    /\ asm' = asm \o AsmProcedures(procedures) \o AsmStart
    /\ output_file' = "NULL"
    /\ pc' = "done"
    /\ procedures' = [p \in 1..Len(procedures) |-> [procedures[p] EXCEPT !.calls = <<>>]]
    /\ UNCHANGED <<content, cursor, current_token, history, proc, err,
                   prog, layout, damage>>

\* generate_code: the block of every procedure, the _start block, fclose
GenerateEmit ==
    /\ pc = "emit"
    /\ Running
    /\ asm' = asm \o AsmProcedures(procedures) \o AsmStart
    /\ output_file' = "NULL"
    /\ pc' = "done"
    /\ UNCHANGED <<content, cursor, current_token, procedures, history, proc, err,
                   prog, layout, damage>>

-----------------------------------------------------------------------------
(* The texts of the compiler runs: a program, written out in one of the     *)
(* layouts, and possibly damaged in one place.                              *)

Names == { NameMain, <<"f">>, <<"g", "2">> }

\* A program is a sequence of items: a declaration opens a procedure, the calls
\* after it are its body.
Items == [kind : {"decl", "call"}, name : Names]

Programs ==
    { p \in UNION { [1..n -> Items] : n \in 0..MaxItems } :
          p = <<>> \/ p[1].kind = "decl" }

ItemTokens(p, i) ==
    IF p[i].kind = "decl"
    THEN (IF i > 1 THEN << <<"}">> >> ELSE <<>>)
         \o << p[i].name, <<":", ":">>, KeywordProc, <<"(">>, <<")">>, <<"{">> >>
    ELSE << p[i].name, <<"(">>, <<")">> >>

ProgramTokens(p) ==
    Flatten([i \in 1..Len(p) |-> ItemTokens(p, i)])
    \o (IF p = <<>> THEN <<>> ELSE << <<"}">> >>)

Layouts == {"tight", "lines"}

Separator(lay, token) ==
    CASE lay = "tight"  -> <<>>
      [] lay = "lines"  -> IF token \in { <<"{">>, <<"}">>, <<")">> } THEN <<"\n">> ELSE <<" ">>

\* A damage replaces one token of the text by a piece (by nothing: <<>>), or
\* cuts the text off before that token.
DamagePieces ==
    { <<>>, <<":">>, <<"$">>, <<"(">>, <<"}">>, <<"x">> }

Damages(p) ==
    {NoDamage} \cup
    (IF Len(p) <= MaxDamaged
     THEN [at : 1..Len(ProgramTokens(p)), piece : DamagePieces, cut : {FALSE}]
          \cup [at : 1..Len(ProgramTokens(p)), piece : {<<>>}, cut : {TRUE}]
     ELSE {})

Damaged(tokens, d) ==
    IF d = NoDamage THEN tokens
    ELSE SubSeq(tokens, 1, d.at - 1)
         \o (IF d.piece = <<>> THEN <<>> ELSE <<d.piece>>)
         \o (IF d.cut THEN <<>> ELSE SubSeq(tokens, d.at + 1, Len(tokens)))

SourceText(p, lay, d) ==
    LET tokens == Damaged(ProgramTokens(p), d)
    IN  Flatten([i \in 1..Len(tokens) |-> tokens[i] \o Separator(lay, tokens[i])])

Intact == damage = NoDamage

-----------------------------------------------------------------------------
(* The compiler run of main without --step: parse, then generate_code *)

Init ==
    /\ prog \in Programs
    /\ layout \in Layouts
    /\ damage \in Damages(prog)
    /\ content = SourceText(prog, layout, damage)
    /\ CompilerNew
    /\ pc = "parse"

Next ==
    \/ ParseBegin
    \/ ParseLoop
    \/ ProcName
    \/ ProcDoubleColon
    \/ ProcKeyword
    \/ ProcLParen
    \/ ProcRParen
    \/ ProcLBrace
    \/ Body
    \/ CallLParen
    \/ CallRParen
    \/ GenerateOpen
    \/ GenerateEmit

Spec == Init /\ [][Next]_vars

-----------------------------------------------------------------------------
(* Claims about the lexer (SpecLex) *)

Last(seq) == seq[Len(seq)]

\* C1: from a fresh compiler, repeated lex calls reach an end-of-input token
\* or a fatal lexical error after finitely many calls (at most one call per
\* character of the text, plus one; until then the next call can be made),
\* and every call that produces a token other than end-of-input strictly
\* increases cursor.point.
EofProduced == \E k \in 1..Len(history) : history[k].type = TOKEN_EOF

C1_LexTerminates ==
    [][/\ (Len(history) > Len(content) => (Raised \/ EofProduced))'
       /\ (history' # history /\ current_token'.type # TOKEN_EOF)
            => cursor'.point > cursor.point]_vars

\* three tokens were lexed, each moving the cursor, and then end-of-input
C1_Witness ==
    /\ Len(history) = 4
    /\ current_token.type = TOKEN_EOF
    /\ \A k \in 1..3 : history[k].type # TOKEN_EOF
    /\ cursor.point >= 3

\* The reference tokenization of a text, read off the text itself.
WordChar(ch) == isalnum(ch) \/ ch = "_"

\* the last position of the maximal run of word characters that holds i
RunEnd(text, i) ==
    LET stops == { j \in (i + 1)..Len(text) : ~WordChar(text[j]) }
    IN  IF stops = {} THEN Len(text)
        ELSE (CHOOSE j \in stops : \A k \in stops : j <= k) - 1

\* how many ':' stand immediately before position i
RECURSIVE ColonsBefore(_, _)
ColonsBefore(text, i) ==
    IF i > 1 /\ text[i - 1] = ":" THEN 1 + ColonsBefore(text, i - 1) ELSE 0

RefStartsToken(text, i) ==
    \/ WordChar(text[i]) /\ (i = 1 \/ ~WordChar(text[i - 1]))
    \/ text[i] = ":" /\ ColonsBefore(text, i) % 2 = 0
    \/ text[i] \in {"(", ")", "{", "}"}

RefKindAt(text, i) ==
    IF WordChar(text[i])
    THEN IF SubSeq(text, i, RunEnd(text, i)) = KeywordProc
         THEN TOKEN_PROC ELSE TOKEN_IDENTIFIER
    ELSE IF text[i] = ":" THEN TOKEN_DOUBLE_COLON
    ELSE PunctuationType(text[i])

RECURSIVE RefKindsFrom(_, _)
RefKindsFrom(text, i) ==
    IF i > Len(text) THEN <<TOKEN_EOF>>
    ELSE IF RefStartsToken(text, i)
         THEN <<RefKindAt(text, i)>> \o RefKindsFrom(text, i + 1)
         ELSE RefKindsFrom(text, i + 1)

RefKinds(text) == RefKindsFrom(text, 1)

\* the text is made only of whitespace, letters, digits, '_', '::', '(' ')' '{' '}'
OnlyTokenCharacters(text) ==
    \A i \in 1..Len(text) :
        /\ \/ isspace(text[i])
           \/ WordChar(text[i])
           \/ text[i] \in {":", "(", ")", "{", "}"}
        /\ (text[i] = ":" /\ (i = Len(text) \/ text[i + 1] # ":"))
              => ColonsBefore(text, i) % 2 = 1

\* no maximal run of letters, digits and underscores starts with a digit
NoLeadingDigit(text) ==
    \A i \in 1..Len(text) :
        (text[i] \in Digit) => (i > 1 /\ WordChar(text[i - 1]))

\* the kinds lexed so far are the reference kinds, end-of-input repeating
MatchesReference ==
    LET ref == RefKinds(content)
    IN  /\ ~Raised
        /\ \A k \in 1..Len(history) :
              history[k].type = IF k <= Len(ref) THEN ref[k] ELSE TOKEN_EOF

\* C2 as stated: on every text made only of whitespace, letters, digits,
\* underscore, '::' and the four brackets, the kinds produced by repeated lex
\* calls are the reference tokenization, ending with end-of-input.
C2_AsStated == OnlyTokenCharacters(content) => MatchesReference

\* C2, amended: the same, for the texts in which no run of letters, digits and
\* underscores starts with a digit (such a run is a fatal "Unexpected character").
C2_Tokenization ==
    (OnlyTokenCharacters(content) /\ NoLeadingDigit(content)) => MatchesReference

\* an identifier, '::' and the keyword were lexed, and then end-of-input
C2_Witness ==
    /\ OnlyTokenCharacters(content) /\ NoLeadingDigit(content)
    /\ Len(history) = 4
    /\ history[1].type = TOKEN_IDENTIFIER
    /\ history[2].type = TOKEN_DOUBLE_COLON
    /\ history[3].type = TOKEN_PROC
    /\ history[4].type = TOKEN_EOF

\* C3: once lex has produced end-of-input, every later lex call produces
\* end-of-input again, with an empty lexeme, and leaves row, col and point
\* of the cursor as they were.
C3_EofIsStable ==
    [][current_token.type = TOKEN_EOF
         => /\ ~Raised'
            /\ Len(history') = Len(history) + 1
            /\ current_token' = Last(history')
            /\ current_token'.type = TOKEN_EOF
            /\ current_token'.lexeme = <<>>
            /\ cursor'.row = cursor.row
            /\ cursor'.col = cursor.col
            /\ cursor'.point = cursor.point]_vars

\* lex was called after it had produced end-of-input, on a text with a token
C3_Witness ==
    /\ Len(history) >= 3
    /\ history[Len(history) - 1].type = TOKEN_EOF
    /\ Last(history).type = TOKEN_EOF
    /\ history[1].type # TOKEN_EOF

-----------------------------------------------------------------------------
(* Claims about the parser and the code generator (Spec) *)

\* what the program the text was written from declares and calls
DeclaredNames(p) == { p[i].name : i \in { k \in 1..Len(p) : p[k].kind = "decl" } }
CalledNames(p)   == { p[i].name : i \in { k \in 1..Len(p) : p[k].kind = "call" } }

Declarations(p, name) == { k \in 1..Len(p) : p[k].kind = "decl" /\ p[k].name = name }

LastDeclaration(p, name) ==
    CHOOSE k \in Declarations(p, name) : \A j \in Declarations(p, name) : j <= k

\* how many calls follow item i before the next declaration
RECURSIVE BodyLength(_, _)
BodyLength(p, i) ==
    IF i < Len(p) /\ p[i + 1].kind = "call" THEN 1 + BodyLength(p, i + 1) ELSE 0

\* the names called by the body of the declaration at item i, in order
BodyOf(p, i) == [k \in 1..BodyLength(p, i) |-> p[i + k].name]

\* the names a table entry calls, in order
CallNames(procs, i) == [k \in 1..Len(procs[i].calls) |-> procs[procs[i].calls[k]].name]

ParseCompleted == pc \in {"generate", "emit", "done"}

LexerMessages == {"Expected ':' after ':'", "Unexpected character"}
ParserMessages ==
    {"Expected procedure name", "Expected '::'", "Expected 'proc'", "Expected '('",
     "Expected ')'", "Expected '{'", "Expected procedure call"}

UniqueNames(procs) ==
    \A i, j \in 1..Len(procs) : procs[i].name = procs[j].name => i = j

\* C4: in every state reached during parse no two table entries have the
\* same name, and a lookup of a name that has an entry yields that entry, the
\* same one before and after every step.
C4_OneEntryPerName ==
    [][/\ UniqueNames(procedures')
       /\ \A i \in 1..Len(procedures) :
             /\ find_procedure(procedures, procedures[i].name) = i
             /\ find_procedure(procedures', procedures[i].name) = i]_vars

\* a name met again, as a call target and as a declared name, has one entry
C4_Witness ==
    /\ pc = "done"
    /\ Len(prog) = 4
    /\ Len(procedures) = 2
    /\ \E n \in Names : n \in DeclaredNames(prog) /\ n \in CalledNames(prog)
    /\ \E n \in Names : Cardinality(Declarations(prog, n)) = 2

\* C5: a call of a name that has no entry yet appends exactly one entry, with
\* that name and an empty call list, and appends that entry to the call list of
\* the declaring procedure; a declaration of a name that has an entry uses that
\* entry and adds none; and when parse has completed, an entry whose name was
\* never declared has an empty call list, while an entry that was first a call
\* target and declared later holds the calls of that declaration.
C5_ForwardReference ==
    [][/\ (/\ pc = "body"
           /\ current_token.type = TOKEN_IDENTIFIER
           /\ find_procedure(procedures, current_token.lexeme) = 0)
          => /\ Len(procedures') = Len(procedures) + 1
             /\ Last(procedures') = [name |-> current_token.lexeme, calls |-> <<>>]
             /\ procedures'[proc].name = procedures[proc].name
             /\ procedures'[proc].calls = Append(procedures[proc].calls, Len(procedures'))
             /\ \A i \in 1..Len(procedures) : i # proc => procedures'[i] = procedures[i]
       /\ (/\ pc = "proc_name"
           /\ current_token.type = TOKEN_IDENTIFIER
           /\ find_procedure(procedures, current_token.lexeme) # 0)
          => /\ Len(procedures') = Len(procedures)
             /\ proc' = find_procedure(procedures, current_token.lexeme)
             /\ procedures'[proc'].name = current_token.lexeme
       /\ (Intact /\ ParseCompleted)'
          => \A i \in 1..Len(procedures') :
                IF procedures'[i].name \in DeclaredNames(prog)
                THEN CallNames(procedures', i)
                       = BodyOf(prog, LastDeclaration(prog, procedures'[i].name))
                ELSE procedures'[i].calls = <<>>]_vars

\* one name was called and never declared, another was called before its
\* declaration, which has a call of its own
C5_Witness ==
    /\ pc = "done"
    /\ Intact
    /\ Len(prog) = 4
    /\ prog[1].kind = "decl" /\ prog[2].kind = "call" /\ prog[3].kind = "decl"
    /\ prog[4].kind = "call"
    /\ prog[3].name = prog[2].name
    /\ prog[2].name # prog[1].name
    /\ prog[4].name \notin DeclaredNames(prog)
    /\ Len(procedures) = 3
    /\ procedures[2].calls = <<3>>
    /\ procedures[3].calls = <<>>

\* C6: when parse of a valid program has completed, the call list of every
\* declared name is exactly the calls of the body of its last declaration, in
\* order; calls of earlier declarations of the name are not retained.
C6_LastDeclarationWins ==
    (Intact /\ ParseCompleted)
    => \A n \in DeclaredNames(prog) :
          /\ find_procedure(procedures, n) # 0
          /\ CallNames(procedures, find_procedure(procedures, n))
               = BodyOf(prog, LastDeclaration(prog, n))

\* a name was declared twice, first with a call and then with another call
C6_Witness ==
    /\ pc = "done"
    /\ Intact
    /\ \E n \in Names :
          /\ Cardinality(Declarations(prog, n)) = 2
          /\ \E k \in Declarations(prog, n) :
                /\ k # LastDeclaration(prog, n)
                /\ BodyOf(prog, k) # <<>>
                /\ BodyOf(prog, LastDeclaration(prog, n)) # <<>>
                /\ BodyOf(prog, k) # BodyOf(prog, LastDeclaration(prog, n))

\* the lines of output.asm
AsmLines(kind, name) == { k \in 1..Len(asm) : asm[k] = <<kind, name>> }

\* the names called but never declared
DanglingNames == CalledNames(prog) \ DeclaredNames(prog)

RetainedCalledNames ==
    UNION { { BodyOf(prog, LastDeclaration(prog, n))[k] :
                k \in 1..BodyLength(prog, LastDeclaration(prog, n)) } :
            n \in DeclaredNames(prog) }

ProcedureLabels ==
    { asm[k][2] : k \in { j \in 1..(Len(asm) - Len(AsmStart)) : asm[j][1] = "label" } }

\* C8: for a valid program, the labels generate_code emits for procedures are
\* exactly the names the source declares or calls.
C8_LabelsAreNames ==
    (Intact /\ pc = "done")
    => /\ asm[Len(asm) - Len(AsmStart) + 1] = <<"label", NameStart>>
       /\ ProcedureLabels = DeclaredNames(prog) \cup CalledNames(prog)

\* code was generated for a program with a declared-only name, a called-only
\* name and a name both declared and called
C8_Witness ==
    /\ pc = "done"
    /\ Intact
    /\ Cardinality(ProcedureLabels) = 3
    /\ DeclaredNames(prog) \ CalledNames(prog) # {}
    /\ CalledNames(prog) \ DeclaredNames(prog) # {}
    /\ DeclaredNames(prog) \cap CalledNames(prog) # {}

\* C9: when the parser rejects a token, the line and column of the report are
\* the row and column at which the rejected token begins.
C9_ErrorAtRejectedToken ==
    (Raised /\ err.message \in ParserMessages)
    => (err.row = current_token.row /\ err.col = current_token.col)

\* C10: once lexing or parsing has raised a fatal error the run has stopped:
\* no step follows (no token is lexed, no table entry changes), and
\* generate_code is never entered, so output.asm is neither opened nor written.
FatalError == Raised /\ err.message \in LexerMessages \cup ParserMessages

C10_ErrorStopsRun ==
    [][/\ ~FatalError
       /\ FatalError' => /\ err'.exited
                         /\ pc' \notin {"generate", "emit", "done"}
                         /\ output_file' = "NULL"
                         /\ asm' = <<>>]_vars

\* the parser rejected a token after a procedure had been entered in the table
C10_Witness ==
    /\ FatalError
    /\ err.message = "Expected 'proc'"
    /\ Len(procedures) = 1
    /\ Len(history) = 3


-----------------------------------------------------------------------------
(* Claims about the emitted assembly and the table order (Spec) *)

\* the number of lines of the blocks of the entries before entry i: a block
\* has a label, two prologue lines, its calls, two epilogue lines, ret and a
\* blank line
RECURSIVE BlockLinesBefore(_, _)
BlockLinesBefore(procs, i) ==
    IF i <= 1 THEN 0
    ELSE BlockLinesBefore(procs, i - 1) + 3 + Len(procs[i - 1].calls) + 4

\* the line of output.asm at which the block of entry i begins
BlockStart(procs, i) == 4 + BlockLinesBefore(procs, i) + 1

\* C11: for a completed table generate_code writes the header, then for
\* each entry in table order a block of the label "<name>:", the two prologue
\* instructions, one "call <callee>" per entry of the call list in call-list
\* order, the two epilogue instructions and ret, and after all blocks the fixed
\* _start block, which calls main and exits with status 0, whether or not a
\* procedure named main is in the table.
C11_EmittedAssembly ==
    pc = "done" =>
       LET n == Len(procedures)
           s == BlockStart(procedures, n + 1)
       IN  /\ asm[1] = <<"text", "global _start">>
           /\ asm[2] = <<"blank">>
           /\ asm[3] = <<"text", "section .text">>
           /\ asm[4] = <<"blank">>
           /\ \A i \in 1..n :
                 LET b == BlockStart(procedures, i)
                     calls == procedures[i].calls
                     m == Len(calls)
                 IN  /\ asm[b] = <<"label", procedures[i].name>>
                     /\ asm[b + 1] = <<"text", "    push rbp">>
                     /\ asm[b + 2] = <<"text", "    mov rbp, rsp">>
                     /\ \A j \in 1..m :
                           asm[b + 2 + j] = <<"call", procedures[calls[j]].name>>
                     /\ asm[b + m + 3] = <<"text", "    mov rsp, rbp">>
                     /\ asm[b + m + 4] = <<"text", "    pop rbp">>
                     /\ asm[b + m + 5] = <<"text", "    ret">>
                     /\ asm[b + m + 6] = <<"blank">>
           /\ Len(asm) = s + 4
           /\ asm[s] = <<"label", <<"_", "s", "t", "a", "r", "t">> >>
           /\ asm[s + 1] = <<"call", <<"m", "a", "i", "n">> >>
           /\ asm[s + 2] = <<"text", "    mov rax, 60">>
           /\ asm[s + 3] = <<"text", "    xor rdi, rdi">>
           /\ asm[s + 4] = <<"text", "    syscall">>

\* code was generated for a table without main, with an entry of two calls
\* that is not the last
C11_Witness ==
    /\ pc = "done"
    /\ find_procedure(procedures, NameMain) = 0
    /\ Len(procedures) = 2
    /\ Len(procedures[1].calls) = 2
    /\ procedures[1].calls[1] # procedures[1].calls[2]

\* the distinct names of the items i.. of a program in the order in which
\* they first appear, those of `seen` left out
RECURSIVE FirstSightingsFrom(_, _, _)
FirstSightingsFrom(p, i, seen) ==
    IF i > Len(p) THEN <<>>
    ELSE IF p[i].name \in seen THEN FirstSightingsFrom(p, i + 1, seen)
    ELSE <<p[i].name>> \o FirstSightingsFrom(p, i + 1, seen \cup {p[i].name})

FirstSightings(p) == FirstSightingsFrom(p, 1, {})

TableNames(procs) == [i \in 1..Len(procs) |-> procs[i].name]

\* C12: the table is append-only and ordered by first sighting: every step
\* of parse keeps each entry at its index with its name and removes none, and
\* when parse of a valid program has completed the i-th entry is the i-th
\* distinct identifier of the source among declared names and call targets.
C12_TableOrder ==
    [][/\ Len(procedures') >= Len(procedures)
       /\ \A i \in 1..Len(procedures) : procedures'[i].name = procedures[i].name
       /\ (Intact /\ ParseCompleted)' => TableNames(procedures') = FirstSightings(prog)]_vars

\* a name was called first and declared after another declaration, and keeps
\* its place before that one
C12_Witness ==
    /\ pc = "done"
    /\ Intact
    /\ Len(prog) = 4
    /\ prog[2].kind = "call" /\ prog[3].kind = "decl" /\ prog[4].kind = "decl"
    /\ prog[4].name = prog[2].name
    /\ Len(procedures) = 3
    /\ procedures[2].name = prog[4].name
    /\ procedures[3].name = prog[3].name

\* C13: within one body every call is recorded, in source order and without
\* deduplication: each call step appends the callee's entry to the call list of
\* the declaring procedure, and when parse of a valid program has completed a
\* call list is as long as the body of the last declaration and names the same
\* callee at each position, a procedure that calls itself included.
C13_CallsInOrder ==
    [][/\ (pc = "body" /\ current_token.type = TOKEN_IDENTIFIER)
          => /\ Len(procedures'[proc].calls) = Len(procedures[proc].calls) + 1
             /\ \A k \in 1..Len(procedures[proc].calls) :
                   procedures'[proc].calls[k] = procedures[proc].calls[k]
             /\ procedures'[Last(procedures'[proc].calls)].name = current_token.lexeme
       /\ (Intact /\ ParseCompleted)'
          => \A i \in 1..Len(procedures') :
                procedures'[i].name \in DeclaredNames(prog)
                => LET d == LastDeclaration(prog, procedures'[i].name)
                   IN  /\ Len(procedures'[i].calls) = BodyLength(prog, d)
                       /\ \A k \in 1..BodyLength(prog, d) :
                             procedures'[procedures'[i].calls[k]].name = prog[d + k].name]_vars

\* a procedure calls itself, another one, and itself again
C13_Witness ==
    /\ pc = "done"
    /\ Intact
    /\ Len(procedures) = 2
    /\ procedures[1].calls = <<1, 2, 1>>

-----------------------------------------------------------------------------
(* Claims about the grammar (Spec) *)

\* The grammar of spec section 4.4, as the kinds a declaration expects in
\* order, each with the report for a token that is not of that kind.
Expecting(kind, message) == [kind |-> kind, message |-> message]

AtBody == Expecting("body", "Expected procedure call")

DeclarationHead ==
    << Expecting(TOKEN_IDENTIFIER, "Expected procedure name"),
       Expecting(TOKEN_DOUBLE_COLON, "Expected '::'"),
       Expecting(TOKEN_PROC, "Expected 'proc'"),
       Expecting(TOKEN_LPAREN, "Expected '('"),
       Expecting(TOKEN_RPAREN, "Expected ')'"),
       Expecting(TOKEN_LBRACE, "Expected '{'"),
       AtBody >>

CallTail ==
    << Expecting(TOKEN_LPAREN, "Expected '('"),
       Expecting(TOKEN_RPAREN, "Expected ')'"),
       AtBody >>

\* What the grammar says of the kinds from position i on, `expected` being
\* what the open declaration still expects (<<>> between declarations):
\* [at |-> 0] when no kind is a mismatch, else the position of the first
\* mismatch and the report for it.
RECURSIVE DiagnoseFrom(_, _, _)
DiagnoseFrom(kinds, i, expected) ==
    IF i > Len(kinds) THEN [at |-> 0, message |-> ""]
    ELSE IF expected = <<>>
    THEN IF kinds[i] = TOKEN_EOF THEN [at |-> 0, message |-> ""]
         ELSE DiagnoseFrom(kinds, i, DeclarationHead)
    ELSE IF Head(expected) = AtBody
    THEN IF kinds[i] = TOKEN_RBRACE THEN DiagnoseFrom(kinds, i + 1, <<>>)
         ELSE IF kinds[i] = TOKEN_IDENTIFIER THEN DiagnoseFrom(kinds, i + 1, CallTail)
         ELSE [at |-> i, message |-> AtBody.message]
    ELSE IF kinds[i] = Head(expected).kind
    THEN DiagnoseFrom(kinds, i + 1, Tail(expected))
    ELSE [at |-> i, message |-> Head(expected).message]

Diagnose(kinds) == DiagnoseFrom(kinds, 1, <<>>)

\* lexing the whole text raises no lexical error (see C2)
LexicallyValid(text) == OnlyTokenCharacters(text) /\ NoLeadingDigit(text)

\* the tokens of the text are declaration* EOF
Grammatical(text) == LexicallyValid(text) /\ Diagnose(RefKinds(text)).at = 0

\* C14: parse completes without a fatal error if and only if the tokens of
\* the source are declaration* EOF: a run whose parse has completed has such a
\* source, a run that stopped in a fatal error has not, and no error is raised
\* before parse completes but a fatal one.  End-of-input inside a declaration
\* or a body is a mismatch of the grammar, so it is rejected.
C14_AcceptsGrammar ==
    /\ ParseCompleted => Grammatical(content)
    /\ FatalError => ~Grammatical(content)
    /\ Raised => FatalError \/ ParseCompleted

\* the text ends inside a body, after a complete call, and is rejected there
C14_Witness ==
    /\ FatalError
    /\ err.message = "Expected procedure call"
    /\ current_token.type = TOKEN_EOF
    /\ pc = "body"
    /\ Len(procedures) = 2
    /\ LexicallyValid(content)

-----------------------------------------------------------------------------
(* Claims about the cursor and the tokens' positions (SpecLex) *)

\* The position after the first n characters of the text, counted from (1,1):
\* one row per newline among them, and the column is one more than the
\* number of characters after the last of those newlines.
NewlinesIn(text, n) == { i \in 1..n : i <= Len(text) /\ text[i] = "\n" }

LastNewline(text, n) ==
    IF NewlinesIn(text, n) = {} THEN 0
    ELSE CHOOSE i \in NewlinesIn(text, n) : \A j \in NewlinesIn(text, n) : j <= i

Replay(text, n) ==
    [row |-> 1 + Cardinality(NewlinesIn(text, n)), col |-> 1 + n - LastNewline(text, n)]

OnReplay(cur) ==
    /\ cur.row = Replay(content, cur.point).row
    /\ cur.col = Replay(content, cur.point).col

\* C15: across any sequence of lex calls cursor.point never decreases, and
\* cursor.row/cursor.col are the values obtained by replaying the first
\* `point` characters of the source from (1,1).
C15_CursorReplay ==
    [][/\ cursor'.point >= cursor.point
       /\ OnReplay(cursor)
       /\ OnReplay(cursor')]_vars

\* the cursor is past a newline and a later character, tokens having been lexed
C15_Witness ==
    /\ pc = "lex"
    /\ cursor.row >= 2
    /\ cursor.col >= 2
    /\ Len(history) >= 2

\* C16: the cursor never passes the terminator of the text (so cursor_advance
\* was never called at end, point only growing by it), and the character under
\* the cursor is never one beyond the terminator, the single ':' that ends the
\* text included.
C16_CursorInBounds ==
    /\ cursor.point <= Len(content)
    /\ cursor_peek(cursor) # OOB

\* a ':' is the last character of the text and the lexer stopped on the terminator
C16_Witness ==
    /\ pc = "lex"
    /\ err.message = "Expected ':' after ':'"
    /\ Len(content) >= 2
    /\ Last(content) = ":"
    /\ cursor.point = Len(content)
    /\ cursor_peek(cursor) = NUL

\* only whitespace lies between positions p and q of the text
BlankBetween(text, p, q) == \A i \in (p + 1)..q : isspace(text[i])

\* where the token after history[i - 1] may begin to skip whitespace
PreviousEnd(i) == IF i = 1 THEN 0 ELSE history[i - 1].end

\* C17: every token produced by lex carries the row/col of its first
\* character, which is the first character after the previous token that is
\* not whitespace, and its span [start, end) delimits exactly its lexeme in
\* the source; for end-of-input start = end = cursor.point.
C17_TokenSpans ==
    \A i \in 1..Len(history) :
        LET t == history[i]
        IN  /\ t.start <= t.end
            /\ t.end <= Len(content)
            /\ t.end - t.start = Len(t.lexeme)
            /\ t.lexeme = SubSeq(content, t.start + 1, t.end)
            /\ t.row = Replay(content, t.start).row
            /\ t.col = Replay(content, t.start).col
            /\ PreviousEnd(i) <= t.start
            /\ BlankBetween(content, PreviousEnd(i), t.start)
            /\ IF t.type = TOKEN_EOF
               THEN t.start = cursor.point /\ t.start = Len(content)
               ELSE t.start < t.end /\ ~isspace(content[t.start + 1])

\* a token of several characters begins on a later row, after whitespace
C17_Witness ==
    /\ pc = "lex"
    /\ Len(history) >= 2
    /\ \E i \in 1..Len(history) :
          /\ history[i].row >= 2
          /\ history[i].col >= 2
          /\ Len(history[i].lexeme) >= 2
    /\ Last(history).type = TOKEN_EOF

\* the first character at or after position p + 1 that is not whitespace
\* (Len(text) + 1 when there is none)
FirstNonSpace(text, p) ==
    LET rest == { i \in (p + 1)..Len(text) : ~isspace(text[i]) }
    IN  IF rest = {} THEN Len(text) + 1
        ELSE CHOOSE i \in rest : \A j \in rest : i <= j

LoneColonAt(text, i) ==
    /\ i <= Len(text)
    /\ text[i] = ":"
    /\ (i = Len(text) \/ text[i + 1] # ":")

DisallowedAt(text, i) ==
    /\ i <= Len(text)
    /\ ~isalpha(text[i])
    /\ text[i] \notin {"_", ":", "(", ")", "{", "}"}

\* C18: a ':' not immediately followed by a second ':' and a character that
\* can begin no token make lex end in a fatal lexical error with the message
\* for the case: no token is produced, the current token and the history stay
\* as they are, and no lex step is taken after an error; nothing else is a
\* lexical error.
C18_LexicalErrors ==
    [][LET i == FirstNonSpace(content, cursor.point)
       IN  /\ ~Raised
           /\ LoneColonAt(content, i) =>
                 /\ err'.exited
                 /\ err'.message = "Expected ':' after ':'"
                 /\ current_token' = current_token
                 /\ history' = history
           /\ DisallowedAt(content, i) =>
                 /\ err'.exited
                 /\ err'.message = "Unexpected character"
                 /\ current_token' = current_token
                 /\ history' = history
           /\ Raised' => LoneColonAt(content, i) \/ DisallowedAt(content, i)]_vars

\* a lone ':' after a lexed token has stopped the run
C18_Witness ==
    /\ pc = "lex"
    /\ err.exited
    /\ err.message = "Expected ':' after ':'"
    /\ Len(history) >= 1
    /\ current_token = Last(history)
    /\ cursor.point < Len(content)

-----------------------------------------------------------------------------
(* Claim about the lexeme buffer (SpecLong) *)

\* the maximal run of word characters that begins at position i of the text
RunFrom(text, i) == SubSeq(text, i, RunEnd(text, i))

\* C19: for an identifier run of any length lex consumes the whole maximal
\* run and the token's lexeme is exactly that run, and the write index into
\* the lexeme buffer, the terminating byte's index (the length of the run)
\* included, never exceeds LexemeBufSize - 1.
C19_LexemeFits ==
    [][LET i == FirstNonSpace(content, cursor.point)
       IN  (i <= Len(content) /\ (isalpha(content[i]) \/ content[i] = "_")) =>
              /\ Len(RunFrom(content, i)) <= LexemeBufSize - 1
              /\ pc' = "lex"
              /\ cursor'.point = RunEnd(content, i)
              /\ current_token'.lexeme = RunFrom(content, i)
              /\ history' = Append(history, current_token')]_vars

-----------------------------------------------------------------------------
(* Claim about the syntax errors' messages (Spec) *)

\* the kinds of the tokens lexed so far, the current token last
HistoryKinds == [i \in 1..Len(history) |-> history[i].type]

SyntaxError == Raised /\ err.message \in ParserMessages

\* C20: at each grammar position the first mismatch raises the error naming
\* what was expected there.  A syntax error is raised on the current token,
\* which is the first token the grammar does not allow where it stands, with
\* the message of that position ("Expected procedure name", "Expected '::'",
\* "Expected 'proc'", "Expected '('", "Expected ')'", "Expected '{'",
\* "Expected procedure call" in a body, end-of-input included, then
\* "Expected '('" and "Expected ')'" after a callee name); and while none is
\* raised no token before the current one is a mismatch.
C20_MessageNamesExpected ==
    LET first == Diagnose(HistoryKinds)
    IN  /\ SyntaxError =>
              /\ err.exited
              /\ first.at = Len(history)
              /\ first.message = err.message
        /\ ~SyntaxError => first.at \in {0, Len(history)}
        /\ (ParseCompleted \/ (Raised /\ ~SyntaxError)) => first.at = 0

\* a call's '(' is followed by something else than ')'
C20_Witness ==
    /\ SyntaxError
    /\ err.message = "Expected ')'"
    /\ pc = "call_rparen"
    /\ Len(history) >= 9
    /\ current_token.type # TOKEN_EOF

-----------------------------------------------------------------------------
(* Claim about the termination of parse (Spec) *)

\* the positions of parse and parse_procedure
ParsePositions ==
    {"parse", "parse_loop", "proc_name", "proc_dcolon", "proc_keyword", "proc_lparen",
     "proc_rparen", "proc_lbrace", "body", "call_lparen", "call_rparen"}

\* the loop test of parse: nothing is lexed, a declaration is entered on a
\* token that is not end-of-input, and parse returns on end-of-input
LoopTestStep ==
    /\ pc = "parse_loop"
    /\ history' = history
    /\ cursor' = cursor
    /\ pc' = IF current_token.type = TOKEN_EOF THEN "generate" ELSE "proc_name"

\* the current token is consumed: the next token is lexed behind it, and the
\* text left to lex shrinks unless the token lexed is end-of-input
ConsumeStep ==
    /\ pc # "parse_loop"
    /\ pc' \in ParsePositions
    /\ history' = Append(history, current_token')
    /\ cursor'.point > cursor.point \/ current_token'.type = TOKEN_EOF
    /\ pc # "parse" => current_token.type # TOKEN_EOF

\* C21: for every source text parse terminates.  Every step of parse stops in
\* a fatal error, is the loop test of parse (which returns only on
\* end-of-input and enters a declaration only on another token), or consumes
\* the current token, which is not end-of-input; so every round of the
\* declaration loop and of the call loop consumes a token that is not
\* end-of-input, no more tokens are lexed than the text has characters, plus
\* one for end-of-input, and parse returns with end-of-input as the current
\* token.
C21_ParseTerminates ==
    [][/\ pc \in ParsePositions => err'.exited \/ LoopTestStep \/ ConsumeStep
       /\ Len(history') <= Len(content) + 1
       /\ \A i \in 1..(Len(history') - 1) : history'[i].type # TOKEN_EOF
       /\ ParseCompleted' => current_token'.type = TOKEN_EOF]_vars

\* parse has returned after two rounds of the declaration loop, one of them
\* with two rounds of the call loop
C21_Witness ==
    /\ pc = "generate"
    /\ Intact
    /\ Len(prog) = 4
    /\ Cardinality({ k \in 1..Len(prog) : prog[k].kind = "decl" }) = 2
    /\ \E k \in 1..Len(prog) : prog[k].kind = "decl" /\ BodyLength(prog, k) = 2
    /\ Len(history) >= 20
    /\ current_token.type = TOKEN_EOF

-----------------------------------------------------------------------------
(* Claim about the references of the call lists (Spec) *)

\* A Procedure* is modelled by the index of its entry in the table; it
\* refers to an entry of the table when it is one of the table's indices.
InTable(procs, p) == p \in 1..Len(procs)

CallsInTable(procs) ==
    \A p \in 1..Len(procs) : \A k \in 1..Len(procs[p].calls) : InTable(procs, procs[p].calls[k])

\* C22: in every state reachable during parse and code generation every entry
\* of every call list refers to a Procedure that is an entry of the table, as
\* does the procedure being declared; and no step takes an entry out of the
\* table or puts another Procedure in its place, so a reference once made
\* stays one to the same entry.
C22_CallsReferToTable ==
    [][/\ CallsInTable(procedures)
       /\ CallsInTable(procedures')
       /\ proc' = 0 \/ InTable(procedures', proc')
       /\ Len(procedures') >= Len(procedures)
       /\ \A p \in 1..Len(procedures) : procedures'[p].name = procedures[p].name]_vars

\* inside a body, a call list holds a reference to an entry made after its own
C22_Witness ==
    /\ pc = "body"
    /\ ~Raised
    /\ Len(procedures) >= 3
    /\ \E p \in 1..Len(procedures) :
          /\ Len(procedures[p].calls) >= 2
          /\ \E k \in 1..Len(procedures[p].calls) : procedures[p].calls[k] > p

-----------------------------------------------------------------------------
(* Claim about the direction of the data flow (Spec) *)

\* the positions of parse where the code up to the next position is a test of
\* the current token's type and a call of lex, nothing else
LexOnlyPositions ==
    {"parse", "proc_dcolon", "proc_keyword", "proc_lparen", "proc_rparen",
     "call_lparen", "call_rparen"}

GeneratePositions == {"generate", "emit"}

\* C23: data flows one way.  A lex call changes at most the cursor, the
\* current token and the token history: it leaves the procedure table and the
\* output handle and file as they are, and no step of parse touches the
\* output.  generate_code changes only the output: it leaves the cursor, the
\* current token, the token history and the procedure table (names, order,
\* call lists) as they are.
C23_OneWayDataFlow ==
    [][/\ pc \in LexOnlyPositions =>
             /\ procedures' = procedures
             /\ proc' = proc
       /\ pc \in ParsePositions =>
             /\ output_file' = output_file
             /\ asm' = asm
             /\ content' = content
       /\ pc \in GeneratePositions =>
             /\ cursor' = cursor
             /\ current_token' = current_token
             /\ history' = history
             /\ procedures' = procedures
             /\ content' = content
       /\ pc = "emit" => asm' # asm]_vars

\* code was generated from a table with call lists, after lexing to the end
C23_Witness ==
    /\ pc = "done"
    /\ layout = "lines"
    /\ cursor.point = Len(content)
    /\ Len(history) >= 12
    /\ Len(procedures) = 2
    /\ \E p \in 1..Len(procedures) : procedures[p].calls # <<>>
    /\ Len(asm) > Len(AsmHeader) + Len(AsmStart)

-----------------------------------------------------------------------------
(* Claim about the token history (SpecLex) *)

\* consecutive entries' spans do not overlap and do not go back
SpansInOrder(h) == \A i \in 1..(Len(h) - 1) : h[i].end <= h[i + 1].start

\* C24: the token history is append-only and mirrors lexing.  It is empty
\* as long as no token was lexed; every lex call that returns appends exactly one
\* entry, equal to the new current token, and changes no earlier entry, and a
\* call that ends in a fatal error appends none, so the history counts the
\* completed lex calls; consecutive entries have non-overlapping,
\* non-decreasing spans (entry i's end <= entry i+1's start).
C24_HistoryMirrorsLexing ==
    [][/\ (history = <<>>) = (current_token = NoToken)
       /\ IF err'.exited
          THEN history' = history
          ELSE /\ Len(history') = Len(history) + 1
               /\ SubSeq(history', 1, Len(history)) = history
               /\ Last(history') = current_token'
       /\ SpansInOrder(history')]_vars

\* tokens apart from each other were lexed, then end-of-input twice
C24_Witness ==
    /\ pc = "lex"
    /\ ~Raised
    /\ Len(history) = 4
    /\ history[1].end < history[2].start
    /\ history[3].type = TOKEN_EOF
    /\ history[4] = history[3]

====
